---- MODULE Spec2Model ----
(***************************************************************************)
(* Asymmetric-extremum content-defined chunking (mg98/ae-chunker-go).      *)
(*                                                                         *)
(* The repository holds three variants of the chunker:                     *)
(*   Split      the buffer variant            (src/unnamed/part_001)       *)
(*   NextBytes  the width-stride stream       (src/ae.go, lines 1-160,     *)
(*              variant                        MinSize in part_002)        *)
(*   NextChunk  the carry-based stream        (src/unnamed/part_000)       *)
(*              variant                                                    *)
(* A behaviour of the model is one chunking session of one variant: Init   *)
(* is the state right after NewChunker, and the driver loops (the loop of   *)
(* the README over NextBytes, getChunks of the tests over NextChunk) call  *)
(* the variant until it reports the end of the input or an error.          *)
(* Byte sequences are TLA+ sequences of naturals; a Go index k is          *)
(* position k + 1 of the sequence.                                         *)
(***************************************************************************)
EXTENDS Integers, Sequences, FiniteSets, TLC

(***************************************************************************)
(* Bounds of the model.                                                    *)
(***************************************************************************)
\* longest input of the exhaustively enumerated family
MaxLen == 4
\* largest byte value of the exhaustively enumerated family
MaxByte == 1
\* largest Options.AverageSize of the exhaustively enumerated family
MaxAvg == 5
\* largest Options.MaxSize of the exhaustively enumerated family
MaxMaxSize == 6
\* Options.AverageSize of the long inputs (windowSize >= 512, so width = 2)
BigAvg == 880
\* length of the long inputs
BigLen == 890
\* last reader offset at which a short read is scheduled
MaxShortPos == 3
\* an average size whose window size, 407, lies in the upper half between two
\* multiples of 256
MidAvg == 700
\* longest run of equal bytes in front of a rising input
MaxRun == 3
\* longest strictly increasing part of a rising input
MaxRise == 6
\* longest input of equal bytes of the short family
MaxConst == 9

(***************************************************************************)
(* Program constants.                                                      *)
(***************************************************************************)
MAX == 0
MIN == 1
\* avgSize := 256 * 1024 * 1024 when no average size is supplied
DefaultAverageSize == 256 * 1024 * 1024
\* int(math.Round(float64(DefaultAverageSize) / (math.E - 1)))
DefaultWindowSize == 156223183

Min2(a, b) == IF a < b THEN a ELSE b

\* Go's s[lo:hi] on a sequence (0-based, hi exclusive)
Slice(s, lo, hi) == SubSeq(s, lo + 1, hi)

RECURSIVE Concat(_)
\* the concatenation of a sequence of chunks, in order
Concat(cs) == IF cs = <<>> THEN <<>> ELSE Head(cs) \o Concat(Tail(cs))

(***************************************************************************)
(* Parameter derivation (shared by the three variants).                    *)
(***************************************************************************)
\* int(math.Round(float64(AverageSize) / (math.E - 1))) for AverageSize >= 0.
\* 1/(e-1) = 0.5819 7670 6869 3264..., multiplied limb by limb in base 10^4
\* so that every intermediate stays below 2^31; exact for
\* 0 <= AverageSize < 250000, the default average size is tabulated.
getWindowSize(AverageSize) ==
    IF AverageSize = DefaultAverageSize THEN DefaultWindowSize
    ELSE LET c3 == AverageSize * 6869
             c2 == AverageSize * 7670 + (c3 \div 10000)
             c1 == AverageSize * 5819 + (c2 \div 10000)
         IN (c1 + 5000) \div 10000

\* a mutant of getWidth: the floor to 1 is missing
getWidth_NoFloor(AverageSize) == getWindowSize(AverageSize) \div 256

\* width := int(math.Round(float64(windowSize / 256))); if width == 0 { width = 1 }
\* (windowSize / 256 is Go's integer division, so Round has nothing to round)
getWidth(AverageSize) ==
    LET width == getWindowSize(AverageSize) \div 256
    IN IF width = 0 THEN 1 ELSE width

\* MinSize(): getWindowSize() + getWidth()
MinSize(AverageSize) == getWindowSize(AverageSize) + getWidth(AverageSize)

RECURSIVE SumSeq(_)
\* res := 0; for _, v := range values { res += int(v) }
SumSeq(values) == IF values = <<>> THEN 0 ELSE Head(values) + SumSeq(Tail(values))

(***************************************************************************)
(* Buffer variant: src/unnamed/part_001.                                   *)
(* A Chunker c is [Data, AverageSize, Extremum, MaxSize].                  *)
(***************************************************************************)
\* NewChunker(data, opts) copies the options into the Chunker
Split_NewChunker(d, o) ==
    [Data |-> d, AverageSize |-> o.AverageSize, Extremum |-> o.Mode,
     MaxSize |-> o.MaxSize]

\* a mutant of sumBytes: a sample is two strides wide
sumBytes_TwoStrides(c, input, p) ==
    LET values == IF Len(input) < p + 2 * getWidth(c.AverageSize)
                  THEN Slice(input, p, Len(input))
                  ELSE Slice(input, p, p + 2 * getWidth(c.AverageSize))
    IN SumSeq(values)

\* sumBytes(data, pos): the sum of the width bytes at pos, or of the shorter tail
sumBytes(c, input, p) ==
    LET values == IF Len(input) < p + getWidth(c.AverageSize)
                  THEN Slice(input, p, Len(input))
                  ELSE Slice(input, p, p + getWidth(c.AverageSize))
    IN SumSeq(values)

\* a mutant of isExtreme: a tie replaces the tracked extreme
isExtreme_NonStrict(c, input, p, maxPos) ==
    LET a == sumBytes(c, input, p)
        b == sumBytes(c, input, maxPos)
    IN IF c.Extremum = MAX THEN a >= b ELSE a <= b

\* isExtreme(input, pos, maxPos)
isExtreme(c, input, p, maxPos) ==
    LET a == sumBytes(c, input, p)
        b == sumBytes(c, input, maxPos)
    IN IF c.Extremum = MAX THEN a > b ELSE a < b

\* a mutant of nextCutPointIter: the window is taken to have elapsed one
\* stride early
nextCutPointIter_WindowEarly(c, input, s) ==
    IF ~(s.i < Len(input)) THEN [s EXCEPT !.ret = Len(input)]
    ELSE IF c.MaxSize > 0 /\ s.i >= c.MaxSize THEN [s EXCEPT !.ret = s.i]
    ELSE IF isExtreme(c, input, s.i, s.maxPos)
         THEN [i |-> s.i + getWidth(c.AverageSize), maxPos |-> s.i, ret |-> -1]
    ELSE IF s.i + getWidth(c.AverageSize) >= s.maxPos + getWindowSize(c.AverageSize)
         THEN [s EXCEPT !.ret = s.i]
    ELSE [i |-> s.i + getWidth(c.AverageSize), maxPos |-> s.maxPos, ret |-> -1]

\* one iteration of the for loop of nextCutPoint on the loop state
\* s = [i, maxPos, ret]; ret is the value returned, -1 while the loop runs
nextCutPointIter(c, input, s) ==
    IF ~(s.i < Len(input)) THEN [s EXCEPT !.ret = Len(input)]
    ELSE IF c.MaxSize > 0 /\ s.i >= c.MaxSize THEN [s EXCEPT !.ret = s.i]
    ELSE IF isExtreme(c, input, s.i, s.maxPos)
         THEN [i |-> s.i + getWidth(c.AverageSize), maxPos |-> s.i, ret |-> -1]
    ELSE IF s.i >= s.maxPos + getWindowSize(c.AverageSize) THEN [s EXCEPT !.ret = s.i]
    ELSE [i |-> s.i + getWidth(c.AverageSize), maxPos |-> s.maxPos, ret |-> -1]

RECURSIVE nextCutPointLoop(_, _, _, _)
\* the for loop of nextCutPoint: up to n iterations from the loop state s,
\* stopping at the return; the n iterations are run as two halves, the second
\* from the state h the first half ends in
nextCutPointLoop(c, input, s, n) ==
    IF s.ret >= 0 \/ n = 0 THEN s
    ELSE IF n = 1 THEN nextCutPointIter(c, input, s)
    ELSE CHOOSE t \in {nextCutPointLoop(c, input, h, n - (n \div 2)) :
                         h \in {nextCutPointLoop(c, input, s, n \div 2)}} : TRUE

\* a mutant of nextCutPoint: the tracked extreme starts at offset 0
nextCutPoint_MaxPosZero(c, input) ==
    nextCutPointLoop(c, input,
        [i |-> getWidth(c.AverageSize), maxPos |-> 0, ret |-> -1], Len(input) + 1).ret

\* nextCutPoint(input): maxPos := getWidth(); i := maxPos + getWidth();
\* the loop runs at most len(input) + 1 times
nextCutPoint(c, input) ==
    nextCutPointLoop(c, input,
        [i |-> getWidth(c.AverageSize) + getWidth(c.AverageSize),
         maxPos |-> getWidth(c.AverageSize), ret |-> -1], Len(input) + 1).ret

\* a mutant of SplitEntry: a MaxSize equal to AverageSize is rejected too
SplitEntry_MaxSizeLeq(c) ==
    IF Len(c.Data) = 0 THEN "empty"
    ELSE IF Len(c.Data) < 3 THEN "short"
    ELSE IF c.AverageSize < 3 THEN "ErrAvgSize"
    ELSE IF c.MaxSize > 0 /\ c.MaxSize <= c.AverageSize THEN "ErrMaxSize"
    ELSE "loop"

\* the outcome of the checks Split makes before its loop:
\* "empty", "short" (the data is returned as one chunk), an error, or "loop"
SplitEntry(c) ==
    IF Len(c.Data) = 0 THEN "empty"
    ELSE IF Len(c.Data) < 3 THEN "short"
    ELSE IF c.AverageSize < 3 THEN "ErrAvgSize"
    ELSE IF c.MaxSize > 0 /\ c.MaxSize < c.AverageSize THEN "ErrMaxSize"
    ELSE "loop"

\* a mutant of SplitCut: the cut is assigned, not accumulated
SplitCut_Assign(c, cut0) == nextCutPoint(c, Slice(c.Data, cut0, Len(c.Data)))

\* cut += c.nextCutPoint(c.Data[cut:])
SplitCut(c, cut0) == cut0 + nextCutPoint(c, Slice(c.Data, cut0, Len(c.Data)))

RECURSIVE SplitLoop(_, _, _)
\* for cut < len(c.Data) { ... chunks = append(chunks, c.Data[prevCut:cut]) }
SplitLoop(c, cut0, chunks0) ==
    IF ~(cut0 < Len(c.Data)) THEN chunks0
    ELSE SplitLoop(c, SplitCut(c, cut0),
                   Append(chunks0, Slice(c.Data, cut0, SplitCut(c, cut0))))

\* Split(): [chunks, err]; a nil slice of chunks is the empty sequence
Split(c) ==
    LET e == SplitEntry(c)
    IN IF e = "empty" THEN [chunks |-> <<>>, err |-> "nil"]
       ELSE IF e = "short" THEN [chunks |-> <<c.Data>>, err |-> "nil"]
       ELSE IF e = "loop" THEN [chunks |-> SplitLoop(c, 0, <<>>), err |-> "nil"]
       ELSE [chunks |-> <<>>, err |-> e]

(***************************************************************************)
(* The byte source (io.Reader).  A source is                               *)
(* [data, kind, shortAt, failAt, failN].                                   *)
(* kind = "full": every read delivers all it is asked for, up to the end,  *)
(*   and io.EOF is signalled on a read that finds no byte left, as         *)
(*   bytes.Reader does.                                                    *)
(* kind = "short": as "full", but a read may deliver fewer bytes.          *)
(* kind = "eof": as "full", but io.EOF is signalled together with the      *)
(*   final bytes, which the contract of io.Reader allows.                  *)
(* kind = "fail": as "full" up to offset failAt; every read that starts at *)
(*   or after failAt reports the error "ErrIO" and delivers failN bytes    *)
(*   (or fewer, when fewer are asked for or left).                         *)
(***************************************************************************)
\* the source that delivers d and fills every read
FullSource(d) ==
    [data |-> d, kind |-> "full", shortAt |-> {}, failAt |-> 0, failN |-> 0]

\* the source that delivers d and signals io.EOF with the final bytes
EofSource(d) == [FullSource(d) EXCEPT !.kind = "eof"]

\* the source that delivers d and reports an error from offset k on, with n
\* bytes in every failing read
FailSource(d, k, n) == [FullSource(d) EXCEPT !.kind = "fail", !.failAt = k, !.failN = n]

\* the source that delivers d with the short reads scheduled in sa
ShortSource(d, sa) == [FullSource(d) EXCEPT !.kind = "short", !.shortAt = sa]

\* the read at offset pos is one that fails
Fails(src, pos) == src.kind = "fail" /\ pos >= src.failAt

\* the bytes left in the source at offset pos
Remaining(src, pos) == Len(src.data) - pos

\* Read(p) with len(p) = req at offset pos, delivering n bytes: [n, bytes, err]
ReadN(src, pos, req, n) ==
    [n |-> n, bytes |-> Slice(src.data, pos, pos + n),
     err |-> IF Fails(src, pos) THEN "ErrIO"
             ELSE IF Remaining(src, pos) = 0 THEN "EOF"
             ELSE IF src.kind = "eof" /\ pos + n = Len(src.data) THEN "EOF"
             ELSE "nil"]

\* the number of bytes a read of req bytes at offset pos delivers when the
\* short reads are the ones scheduled in shortAt (one byte instead of req)
Delivered(src, pos, req) ==
    IF Fails(src, pos)
    THEN Min2(src.failN, Min2(req, Remaining(src, pos)))
    ELSE IF src.kind = "short" /\ pos \in src.shortAt /\ req > 1
    THEN Min2(1, Remaining(src, pos))
    ELSE Min2(req, Remaining(src, pos))

\* Read(p) under the schedule of short reads
Read(src, pos, req) == ReadN(src, pos, req, Delivered(src, pos, req))

(***************************************************************************)
(* Width-stride streaming variant: src/ae.go (NewChunker, NextBytes).      *)
(* A Chunker ch is [avgSize, extremum, windowSize, minSize, maxSize,       *)
(* width]; the session state is the reader offset and len(ch.curBytes).    *)
(***************************************************************************)
\* NewChunker(reader, opts)
NextBytes_NewChunker(o) ==
    LET mode == IF o.isNil THEN MAX ELSE o.Mode
        avgSize == IF o.isNil THEN DefaultAverageSize ELSE o.AverageSize
        maxSize == IF o.isNil THEN DefaultAverageSize * 2 ELSE o.MaxSize
    IN [extremum |-> mode, avgSize |-> avgSize,
        windowSize |-> getWindowSize(avgSize),
        minSize |-> avgSize - getWindowSize(avgSize),
        maxSize |-> maxSize, width |-> getWidth(avgSize)]

\* a mutant of NextBytes_isExtreme: the two modes are swapped
NextBytes_isExtreme_Swapped(ch, cur, prev) ==
    LET curVal == SumSeq(cur)
        prevVal == SumSeq(prev)
    IN IF ch.extremum = MAX THEN curVal < prevVal ELSE curVal > prevVal

\* isExtreme(cur, prev) on the sums of the two byte sequences
NextBytes_isExtreme(ch, cur, prev) ==
    LET curVal == SumSeq(cur)
        prevVal == SumSeq(prev)
    IN IF ch.extremum = MAX THEN curVal > prevVal ELSE curVal < prevVal

\* copy(extremeValue, ch.curBytes): the first len(cur) bytes are overwritten
CopyInto(extremeValue, cur) ==
    cur \o SubSeq(extremeValue, Len(cur) + 1, Len(extremeValue))

\* the error other than io.EOF that the reads of the call have reported so
\* far, once the read r is made ("nil" if none): a history of the call, which
\* the code does not keep
IoErrSeen(L, r) == IF r.err \notin {"nil", "EOF"} THEN r.err ELSE L.ioErr

\* NextBytes returns: the loop state L becomes a returned one
Return(L, chunk, isNil, e) ==
    [L EXCEPT !.done = TRUE, !.chunk = chunk, !.isNil = isNil, !.err = e]

\* a mutant of NextBytesIter: the ceiling is tested before the bytes just
\* read are appended to the chunk
NextBytesIter_CeilingBeforeAppend(ch, src, L) ==
    IF ~(L.err # "EOF") THEN Return(L, L.chunk, FALSE, "nil")
    ELSE
    LET r == Read(src, L.pos, L.curLen)
        read == [L EXCEPT !.pos = L.pos + r.n, !.curLen = r.n, !.err = r.err,
                          !.ioErr = IoErrSeen(L, r)]
        chunk2 == L.chunk \o r.bytes
    IN IF r.n <= 0
       THEN IF r.err # "nil" /\ r.err # "EOF"
            THEN Return([L EXCEPT !.ioErr = IoErrSeen(L, r)], <<>>, TRUE, r.err)
            ELSE Return(L, L.chunk, FALSE, "nil")
       ELSE IF ch.maxSize > 0 /\ L.i >= ch.maxSize
       THEN Return(read, L.chunk, FALSE, "nil")
       ELSE IF NextBytes_isExtreme(ch, r.bytes, L.extremeValue)
       THEN [read EXCEPT !.i = L.i + ch.width, !.extremePos = L.i,
                         !.extremeValue = CopyInto(L.extremeValue, r.bytes),
                         !.chunk = chunk2]
       ELSE IF L.i >= L.extremePos + ch.windowSize
       THEN Return(read, chunk2, FALSE, "nil")
       ELSE [read EXCEPT !.i = L.i + ch.width, !.chunk = chunk2]

\* a mutant of NextBytesIter: the sample is evaluated before the ceiling
NextBytesIter_ExtremeBeforeCeiling(ch, src, L) ==
    IF ~(L.err # "EOF") THEN Return(L, L.chunk, FALSE, "nil")
    ELSE
    LET r == Read(src, L.pos, L.curLen)
        read == [L EXCEPT !.pos = L.pos + r.n, !.curLen = r.n, !.err = r.err,
                          !.ioErr = IoErrSeen(L, r)]
        chunk2 == L.chunk \o r.bytes
    IN IF r.n <= 0
       THEN IF r.err # "nil" /\ r.err # "EOF"
            THEN Return([L EXCEPT !.ioErr = IoErrSeen(L, r)], <<>>, TRUE, r.err)
            ELSE Return(L, L.chunk, FALSE, "nil")
       ELSE IF NextBytes_isExtreme(ch, r.bytes, L.extremeValue)
       THEN [read EXCEPT !.i = L.i + ch.width, !.extremePos = L.i,
                         !.extremeValue = CopyInto(L.extremeValue, r.bytes),
                         !.chunk = chunk2]
       ELSE IF ch.maxSize > 0 /\ L.i >= ch.maxSize
       THEN Return(read, chunk2, FALSE, "nil")
       ELSE IF L.i >= L.extremePos + ch.windowSize
       THEN Return(read, chunk2, FALSE, "nil")
       ELSE [read EXCEPT !.i = L.i + ch.width, !.chunk = chunk2]

\* one iteration of the for loop of NextBytes on the loop state
\* L = [pos, curLen, i, extremePos, extremeValue, chunk, err, done, isNil,
\* ioErr]; once done, chunk, isNil and err are what NextBytes returns
NextBytesIter(ch, src, L) ==
    IF ~(L.err # "EOF") THEN Return(L, L.chunk, FALSE, "nil")
    ELSE
    LET r == Read(src, L.pos, L.curLen)
        read == [L EXCEPT !.pos = L.pos + r.n, !.curLen = r.n, !.err = r.err,
                          !.ioErr = IoErrSeen(L, r)]
        chunk2 == L.chunk \o r.bytes
    IN IF r.n <= 0
       THEN IF r.err # "nil" /\ r.err # "EOF"
            THEN Return([L EXCEPT !.ioErr = IoErrSeen(L, r)], <<>>, TRUE, r.err)
            ELSE Return(L, L.chunk, FALSE, "nil")
       ELSE IF ch.maxSize > 0 /\ L.i >= ch.maxSize
       THEN Return(read, chunk2, FALSE, "nil")
       ELSE IF NextBytes_isExtreme(ch, r.bytes, L.extremeValue)
       THEN [read EXCEPT !.i = L.i + ch.width, !.extremePos = L.i,
                         !.extremeValue = CopyInto(L.extremeValue, r.bytes),
                         !.chunk = chunk2]
       ELSE IF L.i >= L.extremePos + ch.windowSize
       THEN Return(read, chunk2, FALSE, "nil")
       ELSE [read EXCEPT !.i = L.i + ch.width, !.chunk = chunk2]

RECURSIVE NextBytesLoop(_, _, _, _)
\* the for loop of NextBytes: up to n iterations from the loop state L,
\* stopping at the return; the n iterations are run as two halves, the second
\* from the state h the first half ends in
NextBytesLoop(ch, src, L, n) ==
    IF L.done \/ n = 0 THEN L
    ELSE IF n = 1 THEN NextBytesIter(ch, src, L)
    ELSE CHOOSE t \in {NextBytesLoop(ch, src, h, n - (n \div 2)) :
                         h \in {NextBytesLoop(ch, src, L, n \div 2)}} : TRUE

\* NextBytes(): [chunk, isNil, err, pos, curLen, ...], entered at reader offset
\* pos with len(ch.curBytes) = curLen; the loop reads at least one byte in
\* every iteration but its last, so it runs at most Remaining + 1 times
NextBytes(ch, src, pos, curLen) ==
    LET r == Read(src, pos, ch.width)
        L == [pos |-> pos + r.n, curLen |-> curLen,
              i |-> ch.width + ch.width, extremePos |-> ch.width,
              extremeValue |-> r.bytes, chunk |-> r.bytes, err |-> r.err,
              done |-> FALSE, isNil |-> FALSE,
              ioErr |-> IF r.err \notin {"nil", "EOF"} THEN r.err ELSE "nil"]
    IN IF r.err # "nil" \/ r.n < ch.width
       THEN IF r.n > 0
            THEN Return(L, r.bytes, FALSE, r.err)
            ELSE Return(L, <<>>, TRUE, r.err)
       ELSE NextBytesLoop(ch, src, L, Remaining(src, pos) + 1)

(***************************************************************************)
(* Carry-based streaming variant: src/unnamed/part_000.                    *)
(* A Chunker ch is [avgSize, extremum, windowSize, minSize, maxSize]; the  *)
(* session state is the reader offset and ch.overflow.                     *)
(***************************************************************************)
\* NewChunker(r, opts): maxSize stays 0 when opts is nil
NextChunk_NewChunker(o) ==
    LET mode == IF o.isNil THEN MAX ELSE o.Mode
        avgSize == IF ~o.isNil /\ o.AverageSize > 0
                   THEN o.AverageSize ELSE DefaultAverageSize
        maxSize == IF o.isNil THEN 0
                   ELSE IF o.MaxSize > 0 THEN o.MaxSize ELSE avgSize * 2
    IN [extremum |-> mode, avgSize |-> avgSize,
        windowSize |-> getWindowSize(avgSize),
        minSize |-> avgSize - getWindowSize(avgSize),
        maxSize |-> maxSize]

\* isExtreme(cur, prev) on two bytes
NextChunk_isExtreme(ch, cur, prev) ==
    IF ch.extremum = MAX THEN cur > prev ELSE cur < prev

RECURSIVE nextChunkedSliceLoop(_, _, _, _)
\* the for loop of nextChunkedSlice, entered with i and markerPos
nextChunkedSliceLoop(ch, input, i, markerPos) ==
    IF ~(i < Len(input)) THEN input
    ELSE IF i = ch.maxSize THEN Slice(input, 0, i)
    ELSE LET m == IF NextChunk_isExtreme(ch, input[i + 1], input[markerPos + 1])
                  THEN i ELSE markerPos
         IN IF i = m + ch.windowSize THEN Slice(input, 0, i)
            ELSE nextChunkedSliceLoop(ch, input, i + 1, m)

\* a mutant of nextChunkedSlice: the short-window rule is missing
nextChunkedSlice_NoShortRule(ch, input) ==
    nextChunkedSliceLoop(ch, input, ch.minSize, 0)

\* nextChunkedSlice(input): the chunk cut off the front of input
nextChunkedSlice(ch, input) ==
    IF Len(input) <= ch.minSize + ch.windowSize THEN input
    ELSE nextChunkedSliceLoop(ch, input, ch.minSize, 0)

\* a mutant of NextChunkRequest: the carry is not deducted from the request
NextChunkRequest_NoCarry(ch, overflow0) == ch.maxSize

\* the size of the read buffer of NextChunk: ch.maxSize - len(ch.overflow)
NextChunkRequest(ch, overflow0) == ch.maxSize - Len(overflow0)

\* a mutant of NextChunk: the carry is not put in front of the bytes read
NextChunk_CarryIgnored(ch, overflow0, rd) ==
    LET subject == rd.bytes
        nextSlice == nextChunkedSlice(ch, subject)
    IN IF rd.err \notin {"nil", "EOF"}
       THEN [chunk |-> <<>>, isNil |-> TRUE, overflow |-> overflow0, panic |-> TRUE]
       ELSE IF Len(subject) = 0
       THEN [chunk |-> <<>>, isNil |-> TRUE, overflow |-> overflow0, panic |-> FALSE]
       ELSE [chunk |-> nextSlice, isNil |-> FALSE,
             overflow |-> Slice(subject, Len(nextSlice), Len(subject)),
             panic |-> FALSE]

\* NextChunk() when its one Read delivers rd: [chunk, isNil, overflow, panic];
\* on an error other than io.EOF the call panics: it returns nothing (panic
\* is TRUE, no chunk) and leaves ch.overflow as it was
NextChunk(ch, overflow0, rd) ==
    LET subject == overflow0 \o rd.bytes
        nextSlice == nextChunkedSlice(ch, subject)
    IN IF rd.err \notin {"nil", "EOF"}
       THEN [chunk |-> <<>>, isNil |-> TRUE, overflow |-> overflow0, panic |-> TRUE]
       ELSE IF Len(subject) = 0
       THEN [chunk |-> <<>>, isNil |-> TRUE, overflow |-> overflow0, panic |-> FALSE]
       ELSE [chunk |-> nextSlice, isNil |-> FALSE,
             overflow |-> Slice(subject, Len(nextSlice), Len(subject)),
             panic |-> FALSE]

RECURSIVE NextChunkFull(_, _, _, _, _)
\* getChunks over a reader that fills every read: the chunks NextChunk returns
\* from reader offset p with carry ov, appended to out, until it returns nil
NextChunkFull(c, d, p, ov, out) ==
    LET req == NextChunkRequest(c, ov)
        n == Min2(req, Len(d) - p)
        r == NextChunk(c, ov, ReadN(FullSource(d), p, req, n))
    IN IF r.isNil \/ r.panic THEN out
       ELSE NextChunkFull(c, d, p + n, r.overflow, Append(out, r.chunk))

(***************************************************************************)
(* The inputs of a session.                                                *)
(***************************************************************************)
Byte == 0..MaxByte

\* every byte sequence of length 0..MaxLen over Byte
SmallData == UNION {[1..n -> Byte] : n \in 0..MaxLen}

\* the long inputs: equal bytes, a slow rise, a slow fall
BigKinds == {"const", "rise", "fall"}

BigData(kind, n) ==
    [j \in 1..n |-> IF kind = "const" THEN 7
                    ELSE IF kind = "rise" THEN Min2(255, (j - 1) \div 4)
                    ELSE 255 - Min2(255, (j - 1) \div 4)]

\* the lengths of the long inputs: degenerate ones, and ones past BigAvg
BigLens == (0..4) \cup {MinSize(BigAvg), MinSize(BigAvg) + 1, BigLen - 1, BigLen}

\* the rising inputs: r bytes of value v, then the k bytes 1, 2, ..., k
MonoData(r, v, k) == [j \in 1..(r + k) |-> IF j <= r THEN v ELSE j - r]

\* a run below, at or above the first byte of the rise, before every rise
MonoInputs == {MonoData(r, v, k) : r \in 0..MaxRun, v \in 0..2, k \in 0..MaxRise}

\* the inputs of equal bytes: n bytes of value 0, or of value 255
ConstInputs == {[j \in 1..n |-> v] : n \in 0..MaxConst, v \in {0, 255}}

NilOptions == [isNil |-> TRUE, AverageSize |-> 0, Mode |-> MAX, MaxSize |-> 0]

Options(a, m, x) == [isNil |-> FALSE, AverageSize |-> a, Mode |-> m, MaxSize |-> x]

SmallOptions == {Options(a, m, x) : a \in 0..MaxAvg, m \in {MAX, MIN}, x \in 0..MaxMaxSize}

BigOptions == {Options(BigAvg, m, x) : m \in {MAX, MIN},
                                       x \in {0, BigAvg - 1, BigAvg, BigAvg + 1}}

\* the options whose window size is not a multiple of 256, with no ceiling
WidthOptions == {Options(MidAvg, m, 0) : m \in {MAX, MIN}}

\* the sources that deliver d with short reads: one short read at an offset
\* 0..MaxShortPos, or a short read at each of these offsets
ShortSources(d) ==
    {ShortSource(d, sa) : sa \in {{q} : q \in 0..MaxShortPos} \cup {0..MaxShortPos}}

\* the sources that deliver d and signal io.EOF with the final bytes, or
\* report an error from an offset 0..MaxShortPos on, with 0 or 1 byte
ErrSources(d) ==
    {EofSource(d)} \cup
    {FailSource(d, k, n) : k \in 0..Min2(Len(d), MaxShortPos), n \in {0, 1}}

\* the options of the sessions over these sources: the smallest average size
\* Split accepts, with no ceiling or the ceiling at the average size
ErrOptions == {Options(3, m, x) : m \in {MAX, MIN}, x \in {0, 3}}

\* the options of the sessions with a long carry: the smallest average size
\* Split accepts and a ceiling that takes a whole input of equal bytes
CarryOptions == {Options(3, m, MaxConst) : m \in {MAX, MIN}}

VARIABLES
    variant,   \* "Split", "NextBytes" or "NextChunk"
    opts,      \* the Options handed to NewChunker
    src,       \* the input: c.Data of Split, the reader of the stream variants
    ch,        \* the Chunker NewChunker returned
    pc,        \* "start", "loop" (inside Split's loop) or "done"
    pos,       \* the reader offset: how many bytes have been read
    chunks,    \* the chunks returned so far, in order
    err,       \* the error of the last call: "nil", "EOF", "ErrIO", "ErrAvgSize",
               \* "ErrMaxSize"; "panic" when a call of NextChunk panicked
    cut,       \* Split's loop variable cut
    curLen,    \* len(ch.curBytes) of the NextBytes variant
    overflow,  \* ch.overflow of the NextChunk variant
    ret        \* what the last call of a stream variant returned and read

vars == <<variant, opts, src, ch, pc, pos, chunks, err, cut, curLen, overflow, ret>>

\* no call has returned yet; ret is [chunk, isNil, err, ioErr, readErr]:
\* what the call returned ("panic" for a call of NextChunk that panicked),
\* the error other than io.EOF its reads reported (NextBytes), and what the
\* one Read of the call reported (NextChunk)
NoReturn == [chunk |-> <<>>, isNil |-> TRUE, err |-> "nil", ioErr |-> "nil",
             readErr |-> "nil"]

InitSession ==
    /\ pc = "start"
    /\ pos = 0
    /\ chunks = <<>>
    /\ err = "nil"
    /\ cut = 0
    /\ overflow = <<>>
    /\ ret = NoReturn

\* a Split session: the data and explicit options
InitSplit ==
    /\ variant = "Split"
    /\ \/ \E d \in SmallData \cup MonoInputs \cup ConstInputs :
             opts \in SmallOptions /\ src = FullSource(d)
       \/ \E k \in BigKinds, n \in BigLens :
             opts \in BigOptions \cup WidthOptions /\ src = FullSource(BigData(k, n))
    /\ ch = Split_NewChunker(src.data, opts)
    /\ curLen = 0
    /\ InitSession

\* a NextBytes session: a reader, and options or none; short reads are
\* scheduled where a read asks for more than one byte
InitNextBytes ==
    /\ variant = "NextBytes"
    /\ \/ \E d \in SmallData :
             /\ opts \in SmallOptions \cup {NilOptions}
             /\ src \in {FullSource(d)}
                         \cup (IF opts.isNil THEN ShortSources(d) ELSE {})
                         \cup (IF opts \in ErrOptions THEN ErrSources(d) ELSE {})
       \/ \E d \in MonoInputs \cup ConstInputs :
             opts \in SmallOptions /\ src = FullSource(d)
       \/ \E k \in BigKinds, n \in BigLens :
             /\ opts \in BigOptions \cup WidthOptions
             /\ src \in {FullSource(BigData(k, n))}
                         \cup (IF opts \in BigOptions
                               THEN ShortSources(BigData(k, n)) ELSE {})
    /\ ch = NextBytes_NewChunker(opts)
    /\ curLen = ch.width
    /\ InitSession

\* a NextChunk session: a reader, and options or none
InitNextChunk ==
    /\ variant = "NextChunk"
    /\ \/ \E d \in SmallData :
             /\ opts \in SmallOptions \cup {NilOptions}
             /\ src \in {FullSource(d), ShortSource(d, {})}
       \/ \E d \in ConstInputs :
             /\ opts \in CarryOptions
             /\ src \in {FullSource(d), EofSource(d)}
       \/ \E d \in SmallData :
             /\ opts \in ErrOptions
             /\ src \in ErrSources(d)
    /\ ch = NextChunk_NewChunker(opts)
    /\ curLen = 0
    /\ InitSession

Init == InitSplit \/ InitNextBytes \/ InitNextChunk

(***************************************************************************)
(* Split: the checks before the loop, then one loop iteration per step.    *)
(***************************************************************************)
SplitStart ==
    /\ variant = "Split" /\ pc = "start"
    /\ LET e == SplitEntry(ch)
       IN /\ pc' = IF e = "loop" THEN "loop" ELSE "done"
          /\ chunks' = IF e = "short" THEN <<ch.Data>> ELSE <<>>
          /\ err' = IF e \in {"ErrAvgSize", "ErrMaxSize"} THEN e ELSE "nil"
    /\ UNCHANGED <<variant, opts, src, ch, pos, cut, curLen, overflow, ret>>

\* one iteration of "for cut < len(c.Data)"; the loop exit returns chunks, nil
SplitIterate ==
    /\ variant = "Split" /\ pc = "loop"
    /\ cut < Len(ch.Data)
    /\ cut' = SplitCut(ch, cut)
    /\ chunks' = Append(chunks, Slice(ch.Data, cut, cut'))
    /\ pc' = IF cut' < Len(ch.Data) THEN "loop" ELSE "done"
    /\ UNCHANGED <<variant, opts, src, ch, pos, err, curLen, overflow, ret>>

(***************************************************************************)
(* The documented loop over NextBytes: one call per step; the loop stops   *)
(* on io.EOF and on any other error, and appends the chunk otherwise.      *)
(***************************************************************************)
NextBytesCall ==
    /\ variant = "NextBytes" /\ pc # "done"
    /\ LET r == NextBytes(ch, src, pos, curLen)
       IN /\ pos' = r.pos
          /\ curLen' = r.curLen
          /\ err' = r.err
          /\ chunks' = IF r.err # "nil" THEN chunks ELSE Append(chunks, r.chunk)
          /\ pc' = IF r.err # "nil" THEN "done" ELSE "loop"
          /\ ret' = [chunk |-> r.chunk, isNil |-> r.isNil, err |-> r.err,
                     ioErr |-> r.ioErr, readErr |-> "nil"]
    /\ UNCHANGED <<variant, opts, src, ch, cut, overflow>>

(***************************************************************************)
(* getChunks over NextChunk: one call per step, until nil; a call that     *)
(* panics ends the program.                                                *)
(***************************************************************************)
NextChunkCall ==
    /\ variant = "NextChunk" /\ pc # "done"
    /\ NextChunkRequest(ch, overflow) >= 0
    /\ \E n \in 0..Min2(NextChunkRequest(ch, overflow), Remaining(src, pos)) :
          /\ \/ n = Delivered(src, pos, NextChunkRequest(ch, overflow))
             \/ src.kind = "short" /\ n >= 1
          /\ LET rd == ReadN(src, pos, NextChunkRequest(ch, overflow), n)
                 r == NextChunk(ch, overflow, rd)
             IN /\ pos' = pos + n
                /\ ret' = [chunk |-> r.chunk, isNil |-> r.isNil,
                           err |-> IF r.panic THEN "panic" ELSE "nil",
                           ioErr |-> "nil", readErr |-> rd.err]
                /\ err' = IF r.panic THEN "panic" ELSE err
                /\ overflow' = r.overflow
                /\ chunks' = IF r.isNil THEN chunks ELSE Append(chunks, r.chunk)
                /\ pc' = IF r.isNil THEN "done" ELSE "loop"
    /\ UNCHANGED <<variant, opts, src, ch, cut, curLen>>

Next == SplitStart \/ SplitIterate \/ NextBytesCall \/ NextChunkCall

Spec == Init /\ [][Next]_vars

\* the sessions of one variant
SpecSplit == InitSplit /\ [][SplitStart \/ SplitIterate]_vars

SpecNextBytes == InitNextBytes /\ [][NextBytesCall]_vars

SpecNextChunk == InitNextChunk /\ [][NextChunkCall]_vars

\* Split's loop is a plain sequential loop: it keeps running until it returns
FairSpecSplit == SpecSplit /\ WF_vars(SplitStart \/ SplitIterate)

(***************************************************************************)
(* Properties.                                                             *)
(***************************************************************************)
\* the configurations Split's validation accepts
Accepted(o) ==
    /\ ~o.isNil
    /\ o.AverageSize >= 3
    /\ (o.MaxSize = 0 \/ o.MaxSize >= o.AverageSize)

\* the chunks returned so far except the last one
NonLast(cs) == IF cs = <<>> THEN <<>> ELSE SubSeq(cs, 1, Len(cs) - 1)

\* C1: under an accepted configuration, in MAX and in MIN mode, the chunks
\* Split has cut are non-empty, they are the consecutive slices of the data up
\* to the cut, and the chunks Split returns concatenate to the data.
C1_SplitLossless ==
    (variant = "Split" /\ Accepted(opts) /\ pc # "start") =>
        /\ err = "nil"
        /\ \A k \in 1..Len(chunks) : chunks[k] # <<>>
        /\ Concat(chunks) = Slice(src.data, 0, IF pc = "done" THEN Len(src.data) ELSE cut)

\* C1 witness: Split has returned several chunks in MIN mode
C1_Witness ==
    /\ variant = "Split" /\ Accepted(opts) /\ pc = "done"
    /\ opts.Mode = MIN /\ Len(chunks) >= 2

\* C2 as claimed: in a NextChunk session, for every configuration NewChunker
\* accepts (no options included) and whatever the reads deliver, the chunks
\* returned, the carry and the unread bytes make up the input, and once
\* NextChunk has returned nil the chunks concatenate to the input.
C2_NextChunkLossless ==
    (variant = "NextChunk" /\ src.kind # "fail") =>
        /\ Concat(chunks) \o overflow \o Slice(src.data, pos, Len(src.data)) = src.data
        /\ pc = "done" => Concat(chunks) = src.data

\* C3: in a NextBytes session over a source that signals end-of-input on a
\* read of zero bytes, whatever the other reads deliver, the chunks returned so
\* far are the bytes read so far, and once NextBytes has returned io.EOF they
\* concatenate to the input, in MAX and in MIN mode.
C3_NextBytesLossless ==
    (variant = "NextBytes" /\ src.kind \in {"full", "short"}) =>
        /\ Concat(chunks) = Slice(src.data, 0, pos)
        /\ pc = "done" => (err = "EOF" /\ Concat(chunks) = src.data)

\* C3 witness: a session of stride 2 whose reader delivered a short read inside
\* the loop has ended with several chunks, in MIN mode
C3_Witness ==
    /\ variant = "NextBytes" /\ pc = "done" /\ ch.extremum = MIN
    /\ src.kind = "short" /\ ch.width = 2 /\ curLen = 1
    /\ Len(chunks) >= 2 /\ Len(src.data) > BigAvg

\* C4 as claimed: in Split and in NextBytes, under a configuration with
\* maxSize >= averageSize >= 3, no chunk is longer than maxSize.
C4_MaxSizeRespected ==
    (variant \in {"Split", "NextBytes"} /\ Accepted(opts) /\ opts.MaxSize > 0) =>
        \A k \in 1..Len(chunks) : Len(chunks[k]) <= opts.MaxSize

\* C5: in Split under an accepted configuration, and in NextBytes with
\* maxSize unset or >= averageSize over a source that fills every read, every
\* chunk except the last is at least MinSize() = windowSize + width long, and
\* MinSize() > 0.
C5_MinSizeRespected ==
    /\ (variant = "Split" /\ Accepted(opts) /\ pc # "start") =>
          /\ MinSize(ch.AverageSize) > 0
          /\ MinSize(ch.AverageSize)
                = getWindowSize(ch.AverageSize) + getWidth(ch.AverageSize)
          /\ \A k \in 1..Len(chunks) :
                (k < Len(chunks) \/ pc = "loop")
                    => Len(chunks[k]) >= MinSize(ch.AverageSize)
    /\ (variant = "NextBytes" /\ src.kind = "full"
            /\ (ch.maxSize = 0 \/ ch.maxSize >= ch.avgSize)) =>
          /\ MinSize(ch.avgSize) > 0
          /\ MinSize(ch.avgSize) = ch.windowSize + ch.width
          /\ \A k \in 1..Len(NonLast(chunks)) :
                Len(chunks[k]) >= MinSize(ch.avgSize)

\* C5 witness: a NextBytes session of stride 2 has returned a chunk of exactly
\* MinSize() bytes that is not the last one
C5_Witness ==
    /\ variant = "NextBytes" /\ src.kind = "full" /\ ch.width = 2
    /\ (ch.maxSize = 0 \/ ch.maxSize >= ch.avgSize)
    /\ Len(chunks) >= 2 /\ Len(chunks[1]) = MinSize(ch.avgSize)

\* C6 as claimed: once a NextChunk session has ended, its chunks are the ones
\* the same input and configuration yield over a source that fills every read.
C6_ReadGranularityIndependent ==
    (variant = "NextChunk" /\ src.kind # "fail" /\ pc = "done") =>
        chunks = NextChunkFull(ch, src.data, 0, <<>>, <<>>)

\* C7 as claimed: whenever AverageSize < 3, Split returns an error and no
\* chunks, whatever the length of the input.
C7_SmallAverageRejected ==
    (variant = "Split" /\ opts.AverageSize < 3 /\ pc = "done") =>
        (err # "nil" /\ chunks = <<>>)

\* C8: for an input of at least 3 bytes and AverageSize >= 3, Split returns an
\* error, and then no chunks, exactly if MaxSize > 0 and MaxSize < AverageSize.
C8_MaxSizeBelowAverageRejected ==
    (variant = "Split" /\ pc # "start" /\ Len(src.data) >= 3 /\ opts.AverageSize >= 3) =>
        /\ err # "nil" <=> (opts.MaxSize > 0 /\ opts.MaxSize < opts.AverageSize)
        /\ err # "nil" => (chunks = <<>> /\ pc = "done")

\* C8 witness: Split has rejected a MaxSize one below the AverageSize
C8_Witness ==
    /\ variant = "Split" /\ pc = "done" /\ Len(src.data) >= 3
    /\ opts.AverageSize >= 3 /\ opts.MaxSize = opts.AverageSize - 1
    /\ err = "ErrMaxSize"

\* C9: every iteration of Split's loop moves the cut forward by at least one
\* byte and not past the end of the data, and Split returns.
C9_SplitTerminates ==
    /\ [][(variant = "Split" /\ pc = "loop") => (cut < cut' /\ cut' <= Len(src.data))]_vars
    /\ <>(pc = "done")

\* C9 witness: Split, with the width floored to 1, is past a first cut with
\* data left to cut
C9_Witness ==
    /\ variant = "Split" /\ pc = "loop" /\ cut > 0
    /\ getWindowSize(ch.AverageSize) < 256 /\ getWidth(ch.AverageSize) = 1

\* the outcome the claim states for a degenerate input once the session ended
DegenerateOutcome ==
    /\ err \in {"nil", "EOF"}
    /\ Len(src.data) = 0 => chunks = <<>>
    /\ Len(src.data) \in 1..4 => chunks = <<src.data>>

\* C10 as claimed: under every accepted configuration (averageSize >= 3),
\* over a source that fills every read, an empty input yields no chunk and no
\* error and an input of 1 to 4 bytes yields the input as its one chunk.
C10_DegenerateInputs_Claimed ==
    (Accepted(opts) /\ src.kind = "full" /\ pc = "done" /\ Len(src.data) <= 4)
        => DegenerateOutcome

\* C10 amended: the same under the accepted configurations with
\* averageSize >= 5, in the three variants.
C10_DegenerateInputs ==
    (Accepted(opts) /\ opts.AverageSize >= 5 /\ src.kind = "full"
        /\ pc = "done" /\ Len(src.data) <= 4)
        => DegenerateOutcome

\* C10 witness: a NextChunk session over a 4-byte input has ended
C10_Witness ==
    /\ variant = "NextChunk" /\ Accepted(opts) /\ opts.AverageSize >= 5
    /\ src.kind = "full" /\ pc = "done" /\ Len(src.data) = 4
    /\ chunks = <<src.data>>

\* C11 as claimed: in a NextBytes session over a source that reports no error
\* but io.EOF, also one that signals io.EOF together with its final bytes, a
\* call that returns io.EOF returns no chunk bytes, a call that returns chunk
\* bytes returns a nil error, and the chunks the documented loop has collected
\* when it stops on io.EOF are the whole input.
C11_ChunkOrEOF ==
    (variant = "NextBytes" /\ src.kind \in {"full", "short", "eof"}) =>
        /\ ret.err = "EOF" => ret.chunk = <<>>
        /\ ret.chunk # <<>> => ret.err = "nil"
        /\ pc = "done" => Concat(chunks) = src.data

\* C12 as claimed: in a NextBytes session, a call one of whose reads reported
\* an error other than io.EOF, with or without bytes, returns that error and
\* no chunk bytes.
C12_IoErrorPropagated ==
    variant = "NextBytes" =>
        (ret.ioErr # "nil" => (ret.err = ret.ioErr /\ ret.chunk = <<>>))

\* C13 as claimed: the session NewChunker of the NextChunk variant returns has
\* maxSize = 2 x averageSize whenever no maxSize is supplied (no options, or
\* Options.MaxSize <= 0), the default averageSize whenever none is supplied,
\* and mode MAX when no options are given.
C13_DefaultsResolved ==
    variant = "NextChunk" =>
        /\ (opts.isNil \/ opts.MaxSize <= 0) => ch.maxSize = 2 * ch.avgSize
        /\ (opts.isNil \/ opts.AverageSize <= 0) => ch.avgSize = DefaultAverageSize
        /\ opts.isNil => ch.extremum = MAX

\* d is r equal bytes followed by strictly increasing bytes
RunThenRise(d, r) ==
    /\ r <= Len(d)
    /\ \A j \in 1..r : d[j] = d[1]
    /\ \A j \in (r + 1)..(Len(d) - 1) : d[j] < d[j + 1]

\* the run is not above the first byte that follows it
RunNotAbove(d, r) == (r >= 1 /\ r < Len(d)) => d[r] <= d[r + 1]

\* the session is a finished Split or NextBytes session in MAX mode with
\* width 1 over a non-empty input, under an accepted configuration
MonotoneSession ==
    /\ variant \in {"Split", "NextBytes"} /\ pc = "done" /\ src.kind = "full"
    /\ Accepted(opts) /\ opts.Mode = MAX /\ getWidth(opts.AverageSize) = 1
    /\ Len(src.data) >= 1

\* cuts at the ceiling only: one chunk without a ceiling, and with the
\* ceiling M chunks of exactly M bytes up to the last, ceil(n / M) of them
CeilingCutsOnly ==
    /\ err \in {"nil", "EOF"}
    /\ opts.MaxSize = 0 => Len(chunks) = 1
    /\ opts.MaxSize > 0 =>
          /\ \A k \in 1..Len(NonLast(chunks)) : Len(chunks[k]) = opts.MaxSize
          /\ Len(chunks) = (Len(src.data) + opts.MaxSize - 1) \div opts.MaxSize

\* C14 as claimed: on an input that is strictly increasing after a run of
\* equal bytes (of any value) shorter than windowSize, Split and NextBytes cut
\* at the ceiling only.
C14_MonotoneInput_Claimed ==
    (MonotoneSession /\ \E r \in 0..Len(src.data) :
            r < getWindowSize(opts.AverageSize) /\ RunThenRise(src.data, r))
        => CeilingCutsOnly

\* C14 amended: the same when the bytes of the run are not above the first
\* byte that follows the run.
C14_MonotoneInput ==
    (MonotoneSession /\ \E r \in 0..Len(src.data) :
            /\ r < getWindowSize(opts.AverageSize)
            /\ RunThenRise(src.data, r) /\ RunNotAbove(src.data, r))
        => CeilingCutsOnly

\* C14 witness: NextBytes has cut a rising input with two equal bytes in front
\* at the ceiling, and the rise has gone on in the next chunk
C14_Witness ==
    /\ MonotoneSession /\ variant = "NextBytes" /\ opts.MaxSize > 0
    /\ RunThenRise(src.data, 2) /\ RunNotAbove(src.data, 2)
    /\ Len(src.data) > 3 /\ src.data[1] < src.data[Len(src.data)]
    /\ 2 < getWindowSize(opts.AverageSize)
    /\ Len(chunks) >= 2 /\ Len(chunks[1]) = opts.MaxSize
    /\ Len(chunks[2]) >= 2

\* C15: in a NextChunk session, whatever the options and the reads, the scan
\* window of every call (the chunk it returned and the carry it left) is at
\* most maxSize bytes long, so the carry is at most maxSize bytes long, the
\* size of the next read request is not negative, and no chunk is longer than
\* maxSize.
C15_CarryBounded ==
    variant = "NextChunk" =>
        /\ ret.isNil \/ Len(ret.chunk) + Len(overflow) <= ch.maxSize
        /\ Len(overflow) <= ch.maxSize
        /\ NextChunkRequest(ch, overflow) >= 0
        /\ \A k \in 1..Len(chunks) : Len(chunks[k]) <= ch.maxSize

\* C15 witness: a call has scanned a window of maxSize bytes, part of them
\* carried over from the call before, and left a carry again
C15_Witness ==
    /\ variant = "NextChunk" /\ Len(chunks) >= 2 /\ overflow # <<>>
    /\ Len(ret.chunk) + Len(overflow) = ch.maxSize
    /\ Len(chunks[1]) < ch.maxSize

\* the outcome the short-window rule states: nextCutPoint returns the length
\* of the input and Split returns the input as its one chunk
WholeInputOneChunk ==
    /\ nextCutPoint(ch, src.data) = Len(src.data)
    /\ chunks = <<src.data>>
    /\ err = "nil"

\* C16 as claimed: Split under an accepted configuration returns an input of
\* at most minSize + windowSize = averageSize bytes as one chunk.
C16_ShortWindow_Claimed ==
    (variant = "Split" /\ Accepted(opts) /\ pc = "done"
        /\ Len(src.data) >= 1 /\ Len(src.data) <= opts.AverageSize)
        => WholeInputOneChunk

\* C16 amended: Split under an accepted configuration returns an input of
\* at most MinSize() = windowSize + width bytes as one chunk.
C16_ShortWindow ==
    (variant = "Split" /\ Accepted(opts) /\ pc = "done"
        /\ Len(src.data) >= 1 /\ Len(src.data) <= MinSize(opts.AverageSize))
        => WholeInputOneChunk

\* C16 witness: Split with width 2 has returned an input of exactly MinSize()
\* bytes as one chunk
C16_Witness ==
    /\ variant = "Split" /\ Accepted(opts) /\ pc = "done"
    /\ getWidth(opts.AverageSize) = 2
    /\ Len(src.data) = MinSize(opts.AverageSize)
    /\ chunks = <<src.data>>

\* the first sampled offset at or past the ceiling maxSize: the sampled
\* offsets are the multiples of width from 2 x width on
CeilingOffset(width, maxSize) ==
    LET up == ((maxSize + width - 1) \div width) * width
    IN IF up < width + width THEN width + width ELSE up

\* C17: with maxSize > 0, an iteration of nextCutPoint at an offset
\* i >= maxSize inside the input returns i and leaves the tracked extreme as
\* it is, whatever the sample at i; and in Split and in NextBytes (over a
\* source that fills every read) no chunk extends past the first sampled
\* offset that has reached maxSize, however extreme the sample there.
C17_CeilingPrecedence ==
    /\ (variant = "Split" /\ Accepted(opts) /\ opts.MaxSize > 0) =>
          /\ \A i \in 0..(Len(src.data) - 1), m \in 0..(Len(src.data) - 1) :
                (i >= opts.MaxSize /\ m < i) =>
                    nextCutPointIter(ch, src.data, [i |-> i, maxPos |-> m, ret |-> -1])
                        = [i |-> i, maxPos |-> m, ret |-> i]
          /\ \A k \in 1..Len(chunks) :
                Len(chunks[k]) <= CeilingOffset(getWidth(opts.AverageSize), opts.MaxSize)
    /\ (variant = "NextBytes" /\ src.kind = "full" /\ ch.maxSize > 0) =>
          \A k \in 1..Len(chunks) :
                Len(chunks[k]) <= CeilingOffset(ch.width, ch.maxSize)

\* C17 witness: NextBytes in MAX mode has cut a chunk at the ceiling, before
\* the window had elapsed, although the last sample of the chunk is above
\* every sample before it
C17_Witness ==
    /\ variant = "NextBytes" /\ src.kind = "full" /\ ch.maxSize > 0
    /\ ch.extremum = MAX /\ ch.width = 1 /\ Len(chunks) >= 2
    /\ Len(chunks[1]) = ch.maxSize
    /\ Len(chunks[1]) < ch.width + ch.windowSize
    /\ \A j \in 1..(Len(chunks[1]) - 1) : chunks[1][j] < chunks[1][Len(chunks[1])]

\* the bytes of d are all equal
AllEqual(d) == \A j \in 1..Len(d) : d[j] = d[1]

\* the smallest multiple of width that is >= windowSize + width
TieLength(width, windowSize) ==
    ((windowSize + width + width - 1) \div width) * width

\* every chunk except the last is n bytes long, and the last chunk of a
\* session that has ended is what is left: less than one more stride (the
\* shorter sample at the end of an input can be a new extreme at offset n)
EqualChunks(n, width) ==
    /\ \A k \in 1..Len(NonLast(chunks)) : Len(chunks[k]) = n
    /\ (pc = "done" /\ chunks # <<>>) => Len(chunks[Len(chunks)]) < n + width

\* C18: a sample equal to the tracked extreme is not extreme, in MAX and in
\* MIN mode (checked on the samples at the first offsets of the input); and
\* on an input of equal bytes, with maxSize unset or not below L, every chunk
\* of Split (accepted configuration) and of NextBytes (averageSize >= 1, a
\* source that fills every read) except the last is L bytes long, L the
\* smallest multiple of width that is >= windowSize + width.
C18_FirstExtremeWins ==
    /\ (variant = "Split" /\ Accepted(opts)) =>
          /\ \A p, m \in 0..(Min2(Len(src.data), MaxLen) - 1) :
                sumBytes(ch, src.data, p) = sumBytes(ch, src.data, m)
                    => ~isExtreme(ch, src.data, p, m)
          /\ LET L == TieLength(getWidth(opts.AverageSize), getWindowSize(opts.AverageSize))
             IN (AllEqual(src.data) /\ pc # "start"
                    /\ (opts.MaxSize = 0 \/ opts.MaxSize >= L))
                    => EqualChunks(L, getWidth(opts.AverageSize))
    /\ (variant = "NextBytes" /\ src.kind = "full" /\ ch.avgSize >= 1) =>
          /\ \A p, m \in 0..(Min2(Len(src.data), MaxLen) - 1) :
                LET cur == Slice(src.data, p, Min2(p + ch.width, Len(src.data)))
                    prev == Slice(src.data, m, Min2(m + ch.width, Len(src.data)))
                IN SumSeq(cur) = SumSeq(prev) => ~NextBytes_isExtreme(ch, cur, prev)
          /\ LET L == TieLength(ch.width, ch.windowSize)
             IN (AllEqual(src.data) /\ (ch.maxSize = 0 \/ ch.maxSize >= L))
                    => EqualChunks(L, ch.width)

\* C18 witness: Split in MIN mode has cut an input of equal bytes into three
\* chunks or more, the first two of the same length
C18_Witness ==
    /\ variant = "Split" /\ Accepted(opts) /\ opts.Mode = MIN /\ pc = "done"
    /\ AllEqual(src.data) /\ Len(chunks) >= 3
    /\ Len(chunks[1]) = Len(chunks[2])
    /\ Len(chunks[1])
          = TieLength(getWidth(opts.AverageSize), getWindowSize(opts.AverageSize))

\* C19 as claimed: in a NextChunk session with maxSize >= averageSize (and
\* averageSize >= 3) over a source that fills every read, every chunk except
\* the last is at least windowSize + 1 bytes long.
C19_NextChunkMinSize ==
    (variant = "NextChunk" /\ src.kind = "full"
        /\ ch.avgSize >= 3 /\ ch.maxSize >= ch.avgSize) =>
        \A k \in 1..Len(NonLast(chunks)) : Len(chunks[k]) >= ch.windowSize + 1

\* the source has signalled io.EOF to the last call, which left a carry
ExhaustedWithCarry ==
    variant = "NextChunk" /\ ret.readErr = "EOF" /\ overflow # <<>>

\* the call made in this step returns the whole carry as its chunk
EmitsCarry == ~ret'.isNil /\ ret'.chunk = overflow /\ overflow' = <<>>

\* the call made in this step, after one that emptied the carry of an
\* exhausted source, returns nil
NilAfterCarry ==
    (variant = "NextChunk" /\ ret.readErr = "EOF" /\ ~ret.isNil /\ overflow = <<>>)
        => ret'.isNil

\* C20 as claimed: once the source has signalled exhaustion and the carry is
\* not empty, the next call returns the whole carry as one chunk, and the
\* call after it returns nil.
C20_FinalCarry_Claimed ==
    [][(ExhaustedWithCarry => EmitsCarry) /\ NilAfterCarry]_vars

\* C20 amended: the same for a carry of at most averageSize
\* (= minSize + windowSize) bytes.
C20_FinalCarry ==
    [][((ExhaustedWithCarry /\ Len(overflow) <= ch.avgSize) => EmitsCarry)
        /\ NilAfterCarry]_vars

\* C20 witness: a session whose first read took the whole input has ended
\* with three chunks or more, the last of them the carry that was left when
\* the source had signalled exhaustion
C20_Witness ==
    /\ variant = "NextChunk" /\ src.kind = "full" /\ pc = "done" /\ ret.isNil
    /\ ch.maxSize >= Len(src.data) /\ Len(chunks) >= 3
    /\ ret.readErr = "EOF"

\* windowSize / 256 rounded to the nearest integer, halves up, and 1 when
\* that is 0
NearestWidth(windowSize) ==
    IF (windowSize + 128) \div 256 = 0 THEN 1 ELSE (windowSize + 128) \div 256

\* C21 as claimed: the stride a chunker derives is windowSize / 256 rounded to
\* the nearest integer, halves up, and 1 when that rounds to 0: getWidth() of
\* a buffer chunker, the width field of a stream chunker.
C21_StrideDerivation ==
    /\ variant = "Split" =>
           getWidth(ch.AverageSize) = NearestWidth(getWindowSize(ch.AverageSize))
    /\ variant = "NextBytes" => ch.width = NearestWidth(ch.windowSize)

\* C22 as claimed: over a source that fills every read, the chunks the loop
\* over NextBytes has collected when io.EOF ends it are the chunks Split
\* returns for the same bytes and the same accepted options.
C22_BufferStreamEquivalent ==
    (/\ variant = "NextBytes" /\ src.kind = "full" /\ Accepted(opts)
     /\ pc = "done" /\ err = "EOF") =>
        chunks = Split(Split_NewChunker(src.data, opts)).chunks

\* the offset at which the k-th chunk of cs ends
EndOffset(cs, k) == Len(Concat(SubSeq(cs, 1, k)))

\* the chunks Split returns for the first n bytes of c.Data
SplitPrefix(c, n) == Split([c EXCEPT !.Data = SubSeq(c.Data, 1, n)]).chunks

\* the prefix lengths compared: every length up to that of the short inputs,
\* the lengths of the long inputs, and the lengths around the end of the
\* sample at the first offset at which the window can have elapsed
PrefixLens(c) ==
    {n \in 0..Len(c.Data) :
        \/ n <= MaxRun + MaxRise
        \/ n \in BigLens
        \/ n - MinSize(c.AverageSize) \in 0..(2 * getWidth(c.AverageSize) + 1)}

\* the k-th boundary of the chunks xs of an n-byte prefix has its sample
\* inside the prefix
SampleInside(c, xs, k, n) == EndOffset(xs, k) + getWidth(c.AverageSize) <= n

\* C23: for every accepted configuration, when Split of a prefix x of the
\* input has a boundary at an offset c with c + width <= len(x), Split of the
\* whole input x ++ y returns the same chunks up to c.
C23_PrefixStable ==
    (variant = "Split" /\ Accepted(opts) /\ pc = "done") =>
        \A n \in PrefixLens(ch) :
            LET xs == SplitPrefix(ch, n)
            IN \A k \in 1..Len(xs) :
                  SampleInside(ch, xs, k, n) =>
                      /\ k <= Len(chunks)
                      /\ SubSeq(chunks, 1, k) = SubSeq(xs, 1, k)

\* bytes were appended after a boundary whose sample lies inside the prefix,
\* and they changed what follows that boundary
C23_Witness ==
    /\ variant = "Split" /\ Accepted(opts) /\ pc = "done"
    /\ \E n \in PrefixLens(ch) :
          LET xs == SplitPrefix(ch, n)
          IN /\ n < Len(ch.Data)
             /\ Len(xs) >= 2
             /\ SampleInside(ch, xs, Len(xs) - 1, n)
             /\ Len(chunks) >= Len(xs)
             /\ chunks[Len(xs)] # xs[Len(xs)]

====
